---- MODULE Spec2Model ----
(***************************************************************************)
(* Model of overseer (src/main.rs): a registry of "services" (containers   *)
(* carrying labels under the "overseer." namespace) kept in a DashMap,      *)
(* filled by Store::reload_from_docker at startup, updated by               *)
(* handle_events from the engine's event feed, and read by get_services.    *)
(*                                                                         *)
(* Strings that the code inspects for the reserved prefix are modelled as   *)
(* sequences of tokens: the token Prefix stands for the literal             *)
(* "overseer.", every other token for a piece of text that does not         *)
(* contain it.  An Option<T> is modelled as a set: {} is None, {v} is       *)
(* Some(v).  A HashMap / DashMap is a function whose DOMAIN is its key set. *)
(***************************************************************************)
EXTENDS Integers, Sequences, FiniteSets, TLC

VARIABLES
    containers,  \* the engine: container id -> [state, labels]
    services,    \* Store.services: id -> ServiceInfo
    mpc,         \* position of main
    cpc,         \* position of handle_events
    cur,         \* id of the start event whose update_service is awaited
    sub,         \* the open subscription's first item, << >> while it has none
    rpc,         \* position of the get_services request in flight
    rshard,      \* next DashMap shard the request's iterator visits
    racc,        \* entries the request's iterator has collected so far
    resp,        \* body of the last response of get_services
    rseen,       \* history: contents the Registry had during the request
    last,        \* history: the last step the Store's writers completed
    dropped,     \* history: some engine event never reached handle_events
    reconciled,  \* history: reload_from_docker returned Ok
    fcs_in,      \* a call of from_container_summary: its summary and label order
    fcs_out      \* Some(the ServiceInfo it returned), None before it returns

vars == << containers, services, mpc, cpc, cur, sub, rpc, rshard, racc, resp,
           rseen, last, dropped, reconciled, fcs_in, fcs_out >>

----------------------------------------------------------------------------
(* Bounds *)

\* shards of the DashMap
NumShards == 2

----------------------------------------------------------------------------
(* Values *)

None == {}
Some(v) == {v}
Unwrap(o) == CHOOSE v \in o : TRUE

\* the reserved label namespace, "overseer."
Prefix == "overseer."

\* container ids known to the engine, in the order the engine lists them
IdSeq == << "a", "b" >>
Ids == { IdSeq[i] : i \in 1..Len(IdSeq) }

\* String::default(), the key used for a summary without id
DefaultId == ""

\* label keys: "overseer.name", "other", "overseer.overseer.name", "overseer."
K_name == << Prefix, "name" >>
K_other == << "other" >>
K_dbl == << Prefix, Prefix, "name" >>
K_bare == << Prefix >>

EmptyMap == [k \in {} |-> ""]

\* label mappings a container can carry (Option<HashMap<String, String>>)
LabelChoices ==
    { None,
      Some(EmptyMap),
      Some([k \in {K_other} |-> "x"]),
      Some([k \in {K_name, K_other} |-> IF k = K_name THEN "Sample" ELSE "x"]),
      Some([k \in {K_name, K_dbl} |-> IF k = K_name THEN "X" ELSE "Y"]),
      Some([k \in {K_bare} |-> "B"]) }

\* the label mappings of the containers of the engine
ContainerLabels ==
    { None,
      Some([k \in {K_other} |-> "x"]),
      Some([k \in {K_name, K_other} |-> IF k = K_name THEN "Sample" ELSE "x"]) }

\* states the engine reports for a container (Option<String>)
StateChoices == { None, Some("running"), Some("paused"), Some("exited") }

\* the states of the containers before any of them is started
InitialStates == { None, Some("exited") }

\* the states of the containers a listing without all(true) returns: the
\* engine lists the containers whose process is up, paused ones included
ListedByDefault == { Some("running"), Some("paused") }

----------------------------------------------------------------------------
(* HashMap / DashMap operations *)

HashMapInsert(m, k, v) == [x \in DOMAIN m \cup {k} |-> IF x = k THEN v ELSE m[x]]

HashMapRemove(m, k) == [x \in DOMAIN m \ {k} |-> m[x]]

\* every order in which a HashMap with key set S can be iterated
IterOrders(S) ==
    { o \in [1..Cardinality(S) -> S] : \A i, j \in 1..Cardinality(S) : o[i] = o[j] => i = j }

----------------------------------------------------------------------------
(* ServiceInfo::from_container_summary *)

starts_with(s, p) == Len(s) > 0 /\ s[1] = p

RECURSIVE trim_start_matches(_, _)
trim_start_matches(s, p) ==
    IF starts_with(s, p) THEN trim_start_matches(Tail(s), p) ELSE s

\* the loop over the labels, in iteration order `order`, into `values`
RECURSIVE collect_labels(_, _, _)
collect_labels(labels, order, values) ==
    IF order = << >> THEN values
    ELSE LET key == Head(order) IN
         collect_labels(labels, Tail(order),
             IF ~starts_with(key, Prefix) THEN values
             ELSE HashMapInsert(values, trim_start_matches(key, Prefix), labels[key]))

\* the ServiceInfo (its `values`) of a summary, `order` being the order in
\* which the label HashMap happens to be iterated
from_container_summary(container, order) ==
    IF container.labels = None THEN EmptyMap
    ELSE collect_labels(Unwrap(container.labels), order, EmptyMap)

\* the iteration orders of a summary's labels
LabelOrders(container) ==
    IF container.labels = None THEN { << >> }
    ELSE IterOrders(DOMAIN Unwrap(container.labels))

\* every ServiceInfo the extraction can produce for a summary
ServiceInfos(container) ==
    { from_container_summary(container, o) : o \in LabelOrders(container) }

\* no call of from_container_summary is being followed
NoCall == [labels |-> None, order |-> << >>]

----------------------------------------------------------------------------
(* The engine: docker.containers().list and docker.events *)

Summary(id) ==
    [id |-> Some(id), state |-> containers[id].state, labels |-> containers[id].labels]

\* the Vec<ContainerSummary> a successful list call returns; `filter` is
\* None or Some(id) for ContainerFilter::Id(id)
EngineList(all, filter) ==
    LET shown(id) == /\ all \/ containers[id].state \in ListedByDefault
                     /\ filter = None \/ id \in filter
        ids == SelectSeq(IdSeq, shown)
    IN  [i \in 1..Len(ids) |-> Summary(ids[i])]

Event(action, id) == [kind |-> "event", action |-> action, id |-> id]
StreamError == [kind |-> "error", action |-> None, id |-> None]
StreamEnd == [kind |-> "end", action |-> None, id |-> None]

\* faulty variant of Subscribed: the loop goes on reading the feed while an
\* update_service is still awaited
Subscribed_while_updating == mpc = "serving" /\ cpc \in {"await", "requery"}

\* the handle_events loop holds a subscription on which it awaits an item
Subscribed == mpc = "serving" /\ cpc = "await"

\* handle_events calls docker.events(..) anew in every iteration and takes
\* one item of it: only the first item of a subscription is ever read
FirstOfSubscription == Subscribed /\ sub = << >>

\* the engine puts `item` on the feed: handle_events will read it when it
\* is the first item of the open subscription, and never otherwise
Deliver(item) ==
    /\ sub' = IF FirstOfSubscription THEN << item >> ELSE sub
    /\ dropped' = (dropped \/ (reconciled /\ ~FirstOfSubscription
                                  /\ cpc \in {"not_started", "await", "requery"}))

\* what the engine does to a container, the event it emits, the states it
\* applies to and the state it leaves ("die": the container's process exits
\* by itself)
Transitions ==
    { [action |-> "start",   from |-> {None, Some("exited")}, to |-> Some("running")],
      [action |-> "stop",    from |-> {Some("running"), Some("paused")}, to |-> Some("exited")],
      [action |-> "kill",    from |-> {Some("running")}, to |-> Some("exited")],
      [action |-> "pause",   from |-> {Some("running")}, to |-> Some("paused")],
      [action |-> "die",     from |-> {Some("running")}, to |-> Some("exited")] }

\* events that are no container lifecycle change of interest: an event
\* without action, and events without actor id
NoiseEvents ==
    { Event(None, Some(IdSeq[1])), Event(Some("start"), None) }

----------------------------------------------------------------------------
(* Store *)

SummaryId(container) ==
    IF container.id = None THEN DefaultId ELSE Unwrap(container.id)

\* the for loop of reload_from_docker over `listing`; the set of Registry
\* contents it can end with (one per iteration order of the label maps)
RECURSIVE reload_loop(_, _)
reload_loop(svc, listing) ==
    IF listing = << >> THEN { svc }
    ELSE LET container == Head(listing) IN
         IF container.state # Some("running")
         THEN reload_loop(svc, Tail(listing))
         ELSE UNION { reload_loop(IF si = EmptyMap THEN svc
                                  ELSE HashMapInsert(svc, SummaryId(container), si),
                                  Tail(listing))
                      : si \in ServiceInfos(container) }

\* faulty variant of reload_from_docker: the clear() is forgotten
reload_from_docker_no_clear(svc, listing) == reload_loop(svc, listing)

\* Store::reload_from_docker once the listing has arrived: clear, then the loop
reload_from_docker(svc, listing) == reload_loop(EmptyMap, listing)

\* faulty variant of update_service: the is_empty() check is forgotten
RECURSIVE update_service_unfiltered(_, _)
update_service_unfiltered(svc, listing) ==
    IF listing = << >> THEN { svc }
    ELSE LET container == Head(listing) IN
         UNION { update_service_unfiltered(HashMapInsert(svc, SummaryId(container), si),
                                           Tail(listing))
                 : si \in ServiceInfos(container) }

\* faulty variant of update_service: the new label entries are added to the
\* value the key already has instead of replacing it
RECURSIVE update_service_merge(_, _)
update_service_merge(svc, listing) ==
    IF listing = << >> THEN { svc }
    ELSE LET container == Head(listing)
             id == SummaryId(container)
             merged(si) == IF id \notin DOMAIN svc THEN si
                           ELSE [x \in DOMAIN svc[id] \cup DOMAIN si |->
                                    IF x \in DOMAIN si THEN si[x] ELSE svc[id][x]]
         IN  UNION { update_service_merge(IF si = EmptyMap THEN svc
                                          ELSE HashMapInsert(svc, id, merged(si)),
                                          Tail(listing))
                     : si \in ServiceInfos(container) }

\* faulty variant of update_listing: the id filter is not set
update_listing_unfiltered(id) == EngineList(FALSE, None)

\* the listing update_service asks for: ContainerFilter::Id(id), no all(true)
update_listing(id) == EngineList(FALSE, id)

\* the for loop of update_service over `listing`
RECURSIVE update_service(_, _)
update_service(svc, listing) ==
    IF listing = << >> THEN { svc }
    ELSE LET container == Head(listing) IN
         UNION { update_service(IF si = EmptyMap THEN svc
                                ELSE HashMapInsert(svc, SummaryId(container), si),
                                Tail(listing))
                 : si \in ServiceInfos(container) }

\* DashMap: the shard that holds a key
ShardOf(id) ==
    IF id \in Ids THEN (CHOOSE i \in 1..Len(IdSeq) : IdSeq[i] = id) % NumShards ELSE 0

\* the entries of shard `n`
ShardEntries(svc, n) == { k \in DOMAIN svc : ShardOf(k) = n }

----------------------------------------------------------------------------
(* History *)

NoStep == [op |-> "none", action |-> None, id |-> None, before |-> EmptyMap, listed |-> << >>]

Step(op, action, id, listed) ==
    [op |-> op, action |-> action, id |-> id, before |-> services, listed |-> listed]

\* a request in flight has seen the Registry hold `svc`
Observe(svc) == rseen' = IF rpc = "iter" THEN rseen \cup { svc } ELSE rseen

----------------------------------------------------------------------------
(* Initial state: nothing has run; the engine holds its containers *)

Init ==
    /\ containers \in [Ids -> [state : InitialStates, labels : ContainerLabels]]
    /\ services = EmptyMap
    /\ mpc = "connect"
    /\ cpc = "not_started"
    /\ cur = None
    /\ sub = << >>
    /\ rpc = "idle"
    /\ rshard = 0
    /\ racc = EmptyMap
    /\ resp = None
    /\ rseen = {}
    /\ last = NoStep
    /\ dropped = FALSE
    /\ reconciled = FALSE
    /\ fcs_in = NoCall
    /\ fcs_out = None

----------------------------------------------------------------------------
(* main *)

\* main has returned Err or panicked: the process is gone
Terminated == mpc \in {"failed_connect", "failed_reload", "panicked_bind"}

\* Docker::new(..)? : Ok, or Err returned from main
MainConnect ==
    /\ mpc = "connect"
    /\ mpc' \in {"reload", "failed_connect"}
    /\ UNCHANGED << containers, services, cpc, cur, sub, rpc, rshard, racc, resp,
                    rseen, last, dropped, reconciled >>
    /\ UNCHANGED << fcs_in, fcs_out >>

\* faulty variant of AfterReload: the outcome is dropped instead of `?`
AfterReload_ignored(ok) == "bind"

\* what main does with the outcome of state.reload_from_docker(..).await?
AfterReload(ok) == IF ok THEN "bind" ELSE "failed_reload"

\* state.reload_from_docker(&docker).await? : the listing fails and main
\* returns Err, or it arrives and the loop fills the Registry
MainReload ==
    /\ mpc = "reload"
    /\ \/ /\ services' = EmptyMap
          /\ mpc' = AfterReload(FALSE)
          /\ reconciled' = FALSE
          /\ last' = Step("reload_failed", None, None, << >>)
       \/ LET listing == EngineList(TRUE, None) IN
          /\ services' \in reload_from_docker(services, listing)
          /\ mpc' = AfterReload(TRUE)
          /\ reconciled' = TRUE
          /\ last' = Step("reload", None, None, listing)
    /\ UNCHANGED << containers, cpc, cur, sub, rpc, rshard, racc, resp,
                    rseen, dropped >>
    /\ UNCHANGED << fcs_in, fcs_out >>

\* TcpListener::bind(..).await.unwrap(), then join! polls the server and
\* handle_events, which opens its first subscription; or bind panics
MainBind ==
    /\ mpc = "bind"
    /\ \/ mpc' = "serving" /\ cpc' = "await"
       \/ mpc' = "panicked_bind" /\ cpc' = cpc
    /\ UNCHANGED << containers, services, cur, sub, rpc, rshard, racc, resp,
                    rseen, last, dropped, reconciled >>
    /\ UNCHANGED << fcs_in, fcs_out >>

----------------------------------------------------------------------------
(* the engine and the event feed *)

\* the engine is followed for as long as the program can still read it:
\* until main has returned or handle_events has left its loop
Alive == ~Terminated /\ cpc \notin {"returned_ok", "returned_err"}

EngineChange ==
    /\ Alive
    /\ \E id \in Ids, t \in Transitions :
          /\ containers[id].state \in t.from
          /\ containers' = [containers EXCEPT ![id].state = t.to]
          /\ Deliver(Event(Some(t.action), Some(id)))
    /\ UNCHANGED << services, mpc, cpc, cur, rpc, rshard, racc, resp,
                    rseen, last, reconciled >>
    /\ UNCHANGED << fcs_in, fcs_out >>

EngineNoise ==
    /\ Alive
    /\ \E e \in NoiseEvents : Deliver(e)
    /\ UNCHANGED << containers, services, mpc, cpc, cur, rpc, rshard, racc, resp,
                    rseen, last, reconciled >>
    /\ UNCHANGED << fcs_in, fcs_out >>

\* the subscription yields an error item, or ends
FeedBreaks ==
    /\ FirstOfSubscription
    /\ \E item \in { StreamError, StreamEnd } : sub' = << item >>
    /\ UNCHANGED << containers, services, mpc, cpc, cur, rpc, rshard, racc, resp,
                    rseen, last, dropped, reconciled >>
    /\ UNCHANGED << fcs_in, fcs_out >>

----------------------------------------------------------------------------
(* handle_events *)

\* faulty variant of apply_event: the "kill" arm is missing
apply_event_stop_only(svc, action, id) ==
    IF action = "stop" THEN HashMapRemove(svc, id) ELSE svc

\* faulty variant of apply_event: the catch-all arm removes as well
apply_event_remove_any(svc, action, id) == HashMapRemove(svc, id)

\* the match on the action of an event that carries actor id `id`:
\* what happens to the Registry before any await
apply_event(svc, action, id) ==
    IF action \in {"stop", "kill"} THEN HashMapRemove(svc, id) ELSE svc

\* event.action.as_ref().map(|v| &v[..]).unwrap_or("")
ActionOf(event) == IF event.action = None THEN "" ELSE Unwrap(event.action)

\* what the loop does when next() yields None: leaves the loop, Ok(())
AfterStreamEnd == "returned_ok"

\* what the loop does when next() yields Some(Err(_)): event? returns Err
AfterStreamError == "returned_err"

\* one iteration up to its first await: docker.events(..).next().await
\* yields the first item of the subscription, the rest of which is never
\* read; a start event goes on to await update_service
ConsumerNext ==
    /\ Subscribed
    /\ sub # << >>
    /\ LET item == Head(sub) IN
       /\ sub' = << >>
       /\ UNCHANGED dropped
       /\ CASE item.kind = "end" ->
                 /\ cpc' = AfterStreamEnd
                 /\ last' = Step("end", None, None, << >>)
                 /\ UNCHANGED << services, cur >>
            [] item.kind = "error" ->
                 /\ cpc' = AfterStreamError
                 /\ last' = Step("error", None, None, << >>)
                 /\ UNCHANGED << services, cur >>
            [] item.kind = "event" /\ item.id = None ->
                 /\ last' = Step("event", item.action, None, << >>)
                 /\ UNCHANGED << services, cpc, cur >>
            [] item.kind = "event" /\ item.id # None /\ ActionOf(item) = "start" ->
                 /\ cpc' = "requery"
                 /\ cur' = item.id
                 /\ UNCHANGED << services, last >>
            [] OTHER ->
                 /\ services' = apply_event(services, ActionOf(item), Unwrap(item.id))
                 /\ last' = Step("event", item.action, item.id, << >>)
                 /\ UNCHANGED << cpc, cur >>
    /\ Observe(services')
    /\ UNCHANGED << containers, mpc, rpc, rshard, racc, resp, reconciled >>
    /\ UNCHANGED << fcs_in, fcs_out >>

\* faulty variant of AfterUpdateError: the error is logged and the loop goes on
AfterUpdateError_swallowed == "await"

\* what the loop does when update_service returns Err: `?` returns it
AfterUpdateError == "returned_err"

\* store.update_service(docker, &id).await? : the targeted listing fails and
\* handle_events returns Err, or it arrives, the loop upserts and the next
\* iteration opens a new subscription
ConsumerUpdate ==
    /\ mpc = "serving"
    /\ cpc = "requery"
    /\ \/ /\ cpc' = AfterUpdateError
          /\ last' = Step("start_failed", Some("start"), cur, << >>)
          /\ UNCHANGED services
       \/ LET listing == update_listing(cur) IN
          /\ services' \in update_service(services, listing)
          /\ cpc' = "await"
          /\ last' = Step("event", Some("start"), cur, listing)
    /\ cur' = None
    /\ Observe(services')
    /\ UNCHANGED << containers, mpc, sub, rpc, rshard, racc, resp, dropped,
                    reconciled >>
    /\ UNCHANGED << fcs_in, fcs_out >>

----------------------------------------------------------------------------
(* get_services *)

\* a request arrives: state.services.iter() starts at the first shard
QueryBegin ==
    /\ mpc = "serving"
    /\ rpc = "idle"
    /\ rpc' = "iter"
    /\ rshard' = 0
    /\ racc' = EmptyMap
    /\ rseen' = { services }
    /\ UNCHANGED << resp, containers, services, mpc, cpc, cur, sub, last, dropped,
                    reconciled >>
    /\ UNCHANGED << fcs_in, fcs_out >>

\* faulty variant of read_shard: the value copied for a key is built in a
\* buffer that still holds the label entries copied for the keys before it
read_shard_reused_buffer(acc, svc, n) ==
    LET left(k) == { j \in DOMAIN acc : \E x \in DOMAIN acc[j] : x \notin DOMAIN svc[k] }
        copy(k) == IF left(k) = {} THEN svc[k]
                   ELSE LET j == CHOOSE i \in left(k) : TRUE IN
                        [x \in DOMAIN svc[k] \cup DOMAIN acc[j] |->
                            IF x \in DOMAIN svc[k] THEN svc[k][x] ELSE acc[j][x]]
    IN  [k \in DOMAIN acc \cup ShardEntries(svc, n) |->
            IF k \in DOMAIN acc THEN acc[k] ELSE copy(k)]

\* the entries the iterator yields from shard `n`, read under that shard's lock
read_shard(acc, svc, n) ==
    [k \in DOMAIN acc \cup ShardEntries(svc, n) |-> IF k \in DOMAIN acc THEN acc[k] ELSE svc[k]]

\* the iterator copies one shard; after the last one collect() has the
\* body of the response
QueryShard ==
    /\ mpc = "serving"
    /\ rpc = "iter"
    /\ IF rshard + 1 < NumShards
       THEN /\ racc' = read_shard(racc, services, rshard)
            /\ rshard' = rshard + 1
            /\ UNCHANGED << rpc, resp >>
       ELSE /\ resp' = Some(read_shard(racc, services, rshard))
            /\ racc' = EmptyMap
            /\ rshard' = 0
            /\ rpc' = "respond"
    /\ UNCHANGED << containers, services, mpc, cpc, cur, sub, rseen, last, dropped,
                    reconciled >>
    /\ UNCHANGED << fcs_in, fcs_out >>

\* Json(ServicesResponse { services }) is returned to the client
QueryRespond ==
    /\ mpc = "serving"
    /\ rpc = "respond"
    /\ rpc' = "idle"
    /\ resp' = None
    /\ rseen' = {}
    /\ UNCHANGED << containers, services, mpc, cpc, cur, sub, rshard, racc, last,
                    dropped, reconciled >>
    /\ UNCHANGED << fcs_in, fcs_out >>

----------------------------------------------------------------------------

Next ==
    \/ MainConnect
    \/ MainReload
    \/ MainBind
    \/ EngineChange
    \/ EngineNoise
    \/ FeedBreaks
    \/ ConsumerNext
    \/ ConsumerUpdate
    \/ QueryBegin
    \/ QueryShard
    \/ QueryRespond

Spec == Init /\ [][Next]_vars

\* the runtime polls every task that can make progress; the engine, the
\* feed and the clients of get_services owe nothing
FairSpec ==
    /\ Spec
    /\ WF_vars(MainConnect) /\ WF_vars(MainReload) /\ WF_vars(MainBind)
    /\ WF_vars(ConsumerNext) /\ WF_vars(ConsumerUpdate)
    /\ WF_vars(QueryShard) /\ WF_vars(QueryRespond)


----------------------------------------------------------------------------
(* Store::reload_from_docker on its own: called on a Store of any content, *)
(* against any engine, any number of times                                  *)

OldInfo == [k \in {<< "name" >>} |-> "Old"]

\* contents of the Store before a call: empty, an entry for a container of
\* the engine, entries for it and for a container the engine no longer has
PriorRegistries ==
    { EmptyMap,
      [k \in {IdSeq[1]} |-> OldInfo],
      [k \in {IdSeq[1], "gone"} |-> OldInfo] }

ReloadInit ==
    /\ containers \in [Ids -> [state : StateChoices, labels : LabelChoices]]
    /\ services \in PriorRegistries
    /\ mpc = "reload"
    /\ cpc = "not_started"
    /\ cur = None
    /\ sub = << >>
    /\ rpc = "idle"
    /\ rshard = 0
    /\ racc = EmptyMap
    /\ resp = None
    /\ rseen = {}
    /\ last = NoStep
    /\ dropped = FALSE
    /\ reconciled = FALSE
    /\ fcs_in = NoCall
    /\ fcs_out = None

\* one call of reload_from_docker: clear, then the listing fails, or it
\* arrives and the loop runs
ReloadCall ==
    /\ mpc = "reload"
    /\ \/ /\ services' = EmptyMap
          /\ last' = Step("reload_failed", None, None, << >>)
       \/ LET listing == EngineList(TRUE, None) IN
          /\ services' \in reload_from_docker(services, listing)
          /\ last' = Step("reload", None, None, listing)
    /\ UNCHANGED << containers, mpc, cpc, cur, sub, rpc, rshard, racc, resp,
                    rseen, dropped, reconciled >>
    /\ UNCHANGED << fcs_in, fcs_out >>

ReloadNext ==
    \/ ReloadCall
    \/ EngineChange

ReloadSpec == ReloadInit /\ [][ReloadNext]_vars

----------------------------------------------------------------------------
(* ServiceInfo::from_container_summary on its own: called on a summary     *)
(* with any label mapping, iterated in any order                            *)

LabelKeys == { K_name, K_other, K_dbl, K_bare }
LabelValues == { "X", "Y" }

\* every Option<HashMap<String, String>> over these keys and values
AllLabelMaps ==
    { None } \cup { Some(f) : f \in UNION { [S -> LabelValues] : S \in SUBSET LabelKeys } }

ExtractInit ==
    /\ \E l \in AllLabelMaps : \E o \in LabelOrders([labels |-> l]) :
          fcs_in = [labels |-> l, order |-> o]
    /\ fcs_out = None
    /\ containers = [id \in Ids |-> [state |-> None, labels |-> None]]
    /\ services = EmptyMap
    /\ mpc = "connect"
    /\ cpc = "not_started"
    /\ cur = None
    /\ sub = << >>
    /\ rpc = "idle"
    /\ rshard = 0
    /\ racc = EmptyMap
    /\ resp = None
    /\ rseen = {}
    /\ last = NoStep
    /\ dropped = FALSE
    /\ reconciled = FALSE

\* the call returns
ExtractCall ==
    /\ fcs_out = None
    /\ fcs_out' = Some(from_container_summary(fcs_in, fcs_in.order))
    /\ UNCHANGED << containers, services, mpc, cpc, cur, sub, rpc, rshard, racc, resp,
                    rseen, last, dropped, reconciled, fcs_in >>

ExtractNext == ExtractCall

ExtractSpec == ExtractInit /\ [][ExtractNext]_vars

----------------------------------------------------------------------------
(* get_services against a Store whose writer inserts and removes any       *)
(* entries, as handle_events does through update_service and remove          *)

NewInfo == [k \in {<< "name" >>, << "url" >>} |-> IF k = << "name" >> THEN "New" ELSE "U"]

\* the ServiceInfo values the writer upserts
WrittenInfos == { OldInfo, NewInfo }

QueryInit ==
    /\ services = EmptyMap
    /\ containers = [id \in Ids |-> [state |-> Some("running"), labels |-> None]]
    /\ mpc = "serving"
    /\ cpc = "await"
    /\ cur = None
    /\ sub = << >>
    /\ rpc = "idle"
    /\ rshard = 0
    /\ racc = EmptyMap
    /\ resp = None
    /\ rseen = {}
    /\ last = NoStep
    /\ dropped = FALSE
    /\ reconciled = TRUE
    /\ fcs_in = NoCall
    /\ fcs_out = None

\* self.services.insert(id, si)
StoreInsert ==
    /\ \E id \in Ids, si \in WrittenInfos :
          /\ services' = HashMapInsert(services, id, si)
          /\ last' = Step("insert", None, Some(id), << >>)
    /\ Observe(services')
    /\ UNCHANGED << containers, mpc, cpc, cur, sub, rpc, rshard, racc, resp,
                    dropped, reconciled, fcs_in, fcs_out >>

\* store.services.remove(&id)
StoreRemove ==
    /\ \E id \in Ids :
          /\ services' = HashMapRemove(services, id)
          /\ last' = Step("remove", None, Some(id), << >>)
    /\ Observe(services')
    /\ UNCHANGED << containers, mpc, cpc, cur, sub, rpc, rshard, racc, resp,
                    dropped, reconciled, fcs_in, fcs_out >>

QueryNext ==
    \/ StoreInsert
    \/ StoreRemove
    \/ QueryBegin
    \/ QueryShard
    \/ QueryRespond

QuerySpec == QueryInit /\ [][QueryNext]_vars

----------------------------------------------------------------------------
(* handle_events on its own: the loop runs against any engine and a Store   *)
(* of any prior content                                                      *)

\* contents of the Store before the loop handles an event
UpdatePriors == PriorRegistries \cup { [k \in Ids |-> NewInfo] }

UpdateInit ==
    /\ containers \in [Ids -> [state : StateChoices, labels : LabelChoices]]
    /\ services \in UpdatePriors
    /\ mpc = "serving"
    /\ cpc = "await"
    /\ cur = None
    /\ sub = << >>
    /\ rpc = "idle"
    /\ rshard = 0
    /\ racc = EmptyMap
    /\ resp = None
    /\ rseen = {}
    /\ last = NoStep
    /\ dropped = FALSE
    /\ reconciled = TRUE
    /\ fcs_in = NoCall
    /\ fcs_out = None

UpdateNext ==
    \/ EngineChange
    \/ EngineNoise
    \/ FeedBreaks
    \/ ConsumerNext
    \/ ConsumerUpdate

UpdateSpec == UpdateInit /\ [][UpdateNext]_vars

----------------------------------------------------------------------------
(* Vocabulary of the claims *)

\* the container (summary) carries a label under the reserved prefix
HasPrefixedLabel(c) ==
    /\ c.labels # None
    /\ \E key \in DOMAIN Unwrap(c.labels) : starts_with(key, Prefix)

\* the ids the engine reports as running
Running == { id \in Ids : containers[id].state = Some("running") }

\* handle_events has left its loop
ConsumerExited == cpc \in {"returned_ok", "returned_err"}

\* the last completed step is the handling of an event with an actor id
\* and one of the given actions
Handled(actions) ==
    /\ last.op = "event"
    /\ last.id # None
    /\ last.action \in { Some(a) : a \in actions }

----------------------------------------------------------------------------
(* C1 *)

\* C1: whenever handle_events is running, idle on its subscription, and no
\* event the engine emitted is left unprocessed, every key of the Registry
\* is the id of a container the engine reports as running.
C1_KeysAreRunning ==
    (Subscribed /\ sub = << >> /\ ~dropped) => DOMAIN services \subseteq Running

----------------------------------------------------------------------------
(* C2 *)

\* C2: once handle_events has returned an error, the process eventually
\* terminates; it does not go on serving the Registry for ever.
C2_FatalErrorTerminates == (cpc = "returned_err") ~> Terminated

----------------------------------------------------------------------------
(* C3 *)

\* C3: when the event stream ends, handle_events leaves its loop and
\* reports a failure, as it does for an error item; never a success.
C3_StreamEndIsFailure ==
    /\ last.op = "end" => cpc = "returned_err"
    /\ last.op = "error" => cpc = "returned_err"

----------------------------------------------------------------------------
(* C4 *)

\* C4: no request reads the Registry and no event is taken off the feed or
\* applied unless reload_from_docker has returned Ok before; when its
\* listing fails main returns and neither ever happens.
C4_NothingBeforeReconciliation ==
    /\ (rpc # "idle" \/ cpc # "not_started" \/ sub # << >>
           \/ last.op \notin {"none", "reload", "reload_failed"}) => reconciled
    /\ last.op = "reload_failed" => (~reconciled /\ mpc = "failed_reload")
    /\ (~reconciled /\ mpc \notin {"connect", "reload"}) => Terminated

\* reconciliation has succeeded, an event has been applied and a request
\* is being answered
C4_Witness ==
    /\ reconciled
    /\ rpc = "respond"
    /\ Handled({"stop", "kill"})

----------------------------------------------------------------------------
(* C5 *)

\* C5: the body of every response of get_services is the whole content the
\* Registry had at one instant between the start and the end of the request.
C5_ResponseIsSnapshot == rpc = "respond" => Unwrap(resp) \in rseen

----------------------------------------------------------------------------
(* C6 *)

\* C6: the Registry never holds an entry for the id of a container without
\* a label under the reserved prefix, and never an empty ServiceInfo.
C6_FilteringInvariant ==
    \A k \in DOMAIN services :
        /\ services[k] # EmptyMap
        /\ k \in Ids
        /\ HasPrefixedLabel(containers[k])

\* a start event for a listed container without prefixed label has been
\* handled while the Registry holds another service
C6_Witness ==
    /\ Handled({"start"})
    /\ last.listed # << >>
    /\ ~HasPrefixedLabel(containers[Unwrap(last.id)])
    /\ services # EmptyMap

----------------------------------------------------------------------------
(* C7 *)

\* C7: right after a stop or kill event with actor id X is handled, X is no
\* key of the Registry; with X absent before, the Registry is unchanged;
\* handle_events has not left its loop.
C7_RemovalInvariant ==
    Handled({"stop", "kill"}) =>
        /\ Unwrap(last.id) \notin DOMAIN services
        /\ Unwrap(last.id) \notin DOMAIN last.before => services = last.before
        /\ DOMAIN services = DOMAIN last.before \ last.id
        /\ ~ConsumerExited

\* a kill event for a registered id has been handled
C7_Witness ==
    /\ Handled({"kill"})
    /\ Unwrap(last.id) \in DOMAIN last.before

----------------------------------------------------------------------------
(* C8 *)

\* the targeted listing of the last start event held no prefixed label
RequeryWithoutLabel ==
    /\ Handled({"start"})
    /\ \A i \in 1..Len(last.listed) : ~HasPrefixedLabel(last.listed[i])

\* C8: after a start event for X whose re-query returns no label under the
\* reserved prefix is handled, X is no key of the Registry, whatever the
\* Registry held before.
C8_StartWithoutLabelAbsent ==
    RequeryWithoutLabel => Unwrap(last.id) \notin DOMAIN services

----------------------------------------------------------------------------
(* C9 *)

\* the last handled event has no actor id, or an action other than start,
\* stop and kill
IgnoredEvent ==
    /\ last.op = "event"
    /\ last.id = None \/ last.action \notin {Some("start"), Some("stop"), Some("kill")}

\* C9: handling an event whose action is not start, stop or kill, or that
\* has no actor id, leaves the Registry unchanged and does not end
\* handle_events.
C9_IgnoredEventsChangeNothing ==
    IgnoredEvent => (services = last.before /\ ~ConsumerExited)

\* a pause event for a registered id has been handled
C9_Witness ==
    /\ IgnoredEvent
    /\ last.action = Some("pause")
    /\ last.id # None
    /\ Unwrap(last.id) \in DOMAIN services

----------------------------------------------------------------------------
(* C10 *)

\* C10: after a successful reconciliation the Registry is exactly the
\* mapping id -> extracted ServiceInfo over the listed containers whose
\* state is "running" and whose ServiceInfo is not empty, whatever it held
\* before.
C10_ReconciliationResult ==
    last.op = "reload" =>
        LET L == last.listed
            admitted == { i \in 1..Len(L) : /\ L[i].state = Some("running")
                                            /\ HasPrefixedLabel(L[i]) }
        IN  /\ DOMAIN services = { SummaryId(L[i]) : i \in admitted }
            /\ \A i \in admitted : services[SummaryId(L[i])] \in ServiceInfos(L[i])
            /\ \A k \in DOMAIN services : services[k] # EmptyMap

\* a reconciliation of a Store that held a service and an entry of a
\* vanished container has admitted one listed container and skipped
\* another that has prefixed labels but is not running
C10_Witness ==
    /\ last.op = "reload"
    /\ "gone" \in DOMAIN last.before
    /\ services # EmptyMap
    /\ \E i \in 1..Len(last.listed) :
          /\ last.listed[i].state # Some("running")
          /\ HasPrefixedLabel(last.listed[i])

----------------------------------------------------------------------------
(* C14 *)

\* C14: the ServiceInfo extracted from a label mapping is the same for
\* every order in which the labels are iterated.
C14_ExtractionOrderIndependent ==
    fcs_out # None =>
        \A o \in LabelOrders(fcs_in) : from_container_summary(fcs_in, o) = Unwrap(fcs_out)

----------------------------------------------------------------------------
(* C15 *)

\* the pairs (k without one leading occurrence of the prefix, v) of the
\* labels (k, v) whose key begins with the prefix
StrippedOnce(labels) ==
    IF labels = None THEN EmptyMap
    ELSE LET m == Unwrap(labels)
             prefixed == { k \in DOMAIN m : starts_with(k, Prefix) }
         IN  [k \in { Tail(p) : p \in prefixed } |-> m[<< Prefix >> \o k]]

\* C15: for every label mapping, absent ones included, the extracted
\* ServiceInfo is exactly the pairs (k with one leading prefix removed, v)
\* of the labels whose key begins with the prefix.
C15_PrefixStrippedOnce ==
    fcs_out # None => Unwrap(fcs_out) = StrippedOnce(fcs_in.labels)

----------------------------------------------------------------------------
(* C11 *)

\* C11: a reconciliation that follows a reconciliation, the engine's
\* listing being the same for both, leaves the Registry with the content
\* the first one gave it.
C11_ReconciliationIdempotent ==
    [][ (last.op = "reload" /\ last'.op = "reload" /\ last'.listed = last.listed)
            => services' = services ]_vars

----------------------------------------------------------------------------
(* C12 *)

\* C12: when the targeted re-query of a start event fails, the Registry is
\* as it was before the event, handle_events has returned the error
\* without retrying, and it applies no later event.
C12_RequeryFailureIsFatal ==
    last.op = "start_failed" =>
        /\ services = last.before
        /\ cpc = "returned_err"
        /\ cur = None
        /\ sub = << >>

\* the re-query of a start event has failed with services registered
C12_Witness ==
    /\ last.op = "start_failed"
    /\ services # EmptyMap

----------------------------------------------------------------------------
(* C13 *)

\* C13: events are applied in the order of their delivery, for every id:
\* while the re-query of a delivered start event is awaited, no other item
\* is taken off the feed and the only change to the Registry is the one of
\* that start event.
C13_AppliedInDeliveryOrder ==
    [][ cpc = "requery" =>
          /\ sub = << >> /\ sub' = << >>
          /\ cur # None
          /\ (services' # services \/ last' # last) =>
                /\ last'.op \in {"event", "start_failed"}
                /\ last'.action = Some("start")
                /\ last'.id = cur
                /\ cpc' # "requery" ]_vars

\* a stop or kill event of an id has been applied and a later start event
\* of the same id is awaiting its re-query
C13_Witness ==
    /\ cpc = "requery"
    /\ Handled({"stop", "kill"})
    /\ last.id = cur

----------------------------------------------------------------------------
(* C16 *)

\* the entries a request has copied after a step
Copied == IF rpc = "respond" THEN Unwrap(resp) ELSE racc

\* C16: every (key, ServiceInfo) pair of a response is a value one upsert
\* committed for that key: the one the Registry holds at the instant the
\* key is read, kept as copied until the response, hence one the Registry
\* held during the request.
C16_PairsAreCommittedValues ==
    /\ [](rpc = "respond" =>
             \A k \in DOMAIN Unwrap(resp) :
                 \E svc \in rseen : k \in DOMAIN svc /\ svc[k] = Unwrap(resp)[k])
    /\ [][ (rpc = "iter" /\ rpc' \in {"iter", "respond"}) =>
             /\ \A k \in DOMAIN racc : k \in DOMAIN Copied' /\ Copied'[k] = racc[k]
             /\ \A k \in DOMAIN Copied' \ DOMAIN racc :
                   k \in DOMAIN services /\ Copied'[k] = services[k] ]_vars

\* a response holds a key that was upserted with two different values
\* while the request ran
C16_Witness ==
    /\ rpc = "respond"
    /\ \E k \in DOMAIN Unwrap(resp) : \E s1, s2 \in rseen :
          /\ k \in DOMAIN s1 /\ k \in DOMAIN s2
          /\ s1[k] # s2[k]

----------------------------------------------------------------------------
(* C17 .. C20 *)

\* handle_events is inside its loop: awaiting an item or a re-query
ConsumerRunning == mpc = "serving" /\ cpc \in {"await", "requery"}

\* C17: every lifecycle event the engine emits while the consumer loop runs,
\* also during a re-query and between two iterations, is kept on the feed
\* the consumer reads from (none is lost to a new subscription).
C17_NoEventSkipped ==
    [][ (ConsumerRunning /\ containers' # containers) =>
            /\ Len(sub') = Len(sub) + 1
            /\ sub'[Len(sub')].kind = "event"
            /\ \A i \in 1..Len(sub) : sub'[i] = sub[i] ]_vars

\* the last step is a start event for a container id whose targeted
\* listing arrived and was worked through
StartHandled == last.op = "event" /\ last.action = Some("start") /\ last.id # None

\* C18: the start handler admits what reconciliation admits: the Registry
\* it leaves is one the loop of reload_from_docker leaves when it is run
\* over the same summaries (state exactly "running", ServiceInfo non-empty).
C18_PathsAdmitTheSame ==
    StartHandled => services \in reload_loop(last.before, last.listed)

\* C19: handling a start event for id X leaves every entry under another
\* key as it was.
C19_StartChangesOnlyItsKey ==
    StartHandled =>
        \A k \in (DOMAIN services \cup DOMAIN last.before) \ last.id :
            /\ k \in DOMAIN services
            /\ k \in DOMAIN last.before
            /\ services[k] = last.before[k]

\* a start event was handled while the Registry held entries under other keys
\* and the engine listed another container by default
C19_Witness ==
    /\ StartHandled
    /\ DOMAIN last.before \ last.id # {}
    /\ services # last.before
    /\ \E id \in Ids \ last.id : containers[id].state \in ListedByDefault

\* C20: after a start event for X whose listing reports X with prefixed
\* labels, the Registry maps X to the ServiceInfo of that summary and to
\* nothing more.
C20_StartReplacesWholesale ==
    StartHandled =>
        \A i \in 1..Len(last.listed) :
            LET container == last.listed[i] IN
            (container.id = last.id /\ HasPrefixedLabel(container)) =>
                /\ Unwrap(last.id) \in DOMAIN services
                /\ services[Unwrap(last.id)] \in ServiceInfos(container)

\* the key had a value with a label key that the new value does not have
C20_Witness ==
    /\ StartHandled
    /\ \E i \in 1..Len(last.listed) :
          /\ last.listed[i].id = last.id
          /\ HasPrefixedLabel(last.listed[i])
    /\ Unwrap(last.id) \in DOMAIN last.before
    /\ \E x \in DOMAIN last.before[Unwrap(last.id)] :
          x \notin DOMAIN services[Unwrap(last.id)]

====
